---- MODULE Spec2Model ----
(***************************************************************************)
(* calvest: expansion of a calendar event's recurrence rule into concrete  *)
(* occurrences (src/ical/mod.rs, src/ical/rrule.rs) and their collection   *)
(* for a query window (src/main.rs, relevant_events).                      *)
(*                                                                         *)
(* An instant (DateTime<Utc>) is a whole number of hours since             *)
(* 1970-01-01T00:00Z.  Every operation the expansion applies to an instant *)
(* (adding whole days or months, comparing, taking the calendar day, month,*)
(* year or weekday) is exact at that resolution.                           *)
(***************************************************************************)
EXTENDS Integers, Sequences, FiniteSets, TLC

VARIABLES event, config, iter, pc, next_date, ret, events, stream,
          rule_text, overflow_checks, parsed,
          calendar, idx, main_events, deduplicated_events, mpc,
          first

vars == <<event, config, iter, pc, next_date, ret, events, stream,
          rule_text, overflow_checks, parsed,
          calendar, idx, main_events, deduplicated_events, mpc,
          first>>

\* the input and the result of one call of RRule::from_str
parse_vars == <<rule_text, overflow_checks, parsed>>

\* the locals of main: the calendar read, the position of its loop over the
\* events, the occurrences collected and the deduplication map
main_vars == <<calendar, idx, main_events, deduplicated_events, mpc>>

\* first: what the iterator of an earlier call of Event::recurring on the
\* same event returned before the caller dropped it (None while there was no
\* earlier iterator)

(***************************************************************************)
(* Option<T>                                                               *)
(***************************************************************************)
None == <<>>

Some(x) == <<x>>

is_some(o) == o # <<>>

unwrap(o) == o[1]

(***************************************************************************)
(* Bounds of the model                                                     *)
(***************************************************************************)
\* the walk of one expansion is followed for this many days past the base
MaxWalkDays == 60

(***************************************************************************)
(* chrono: calendar arithmetic on instants                                 *)
(***************************************************************************)
HoursPerDay == 24

Abs(x) == IF x < 0 THEN -x ELSE x

\* number of days since 1970-01-01 of the instant's calendar day (UTC)
DayNumber(dt) == dt \div HoursPerDay

HourOfDay(dt) == dt % HoursPerDay

\* proleptic Gregorian date of a day number, as chrono's Datelike gives it
Civil(z) ==
    LET s   == z + 719468
        era == s \div 146097
        doe == s - era * 146097
        yoe == (doe - doe \div 1460 + doe \div 36524 - doe \div 146096) \div 365
        doy == doe - (365 * yoe + yoe \div 4 - yoe \div 100)
        mp  == (5 * doy + 2) \div 153
        d   == doy - (153 * mp + 2) \div 5 + 1
        m   == IF mp < 10 THEN mp + 3 ELSE mp - 9
        y   == yoe + era * 400 + (IF m <= 2 THEN 1 ELSE 0)
    IN  [year |-> y, month |-> m, day |-> d]

DaysFromCivil(y, m, d) ==
    LET yy  == IF m <= 2 THEN y - 1 ELSE y
        era == yy \div 400
        yoe == yy - era * 400
        doy == (153 * (IF m > 2 THEN m - 3 ELSE m + 9) + 2) \div 5 + d - 1
        doe == yoe * 365 + yoe \div 4 - yoe \div 100 + doy
    IN  era * 146097 + doe - 719468

\* the instant of hour h of the given calendar day
At(y, m, d, h) == DaysFromCivil(y, m, d) * HoursPerDay + h

year(dt) == Civil(DayNumber(dt)).year

month(dt) == Civil(DayNumber(dt)).month

day(dt) == Civil(DayNumber(dt)).day

Weekdays == <<"Mon", "Tue", "Wed", "Thu", "Fri", "Sat", "Sun">>

\* 1970-01-01 was a Thursday
weekday(dt) == Weekdays[((DayNumber(dt) + 3) % 7) + 1]

number_from_monday(wd) == CHOOSE i \in 1..7 : Weekdays[i] = wd

number_from_sunday(wd) == (number_from_monday(wd) % 7) + 1

is_leap_year(y) == (y % 4 = 0 /\ y % 100 # 0) \/ y % 400 = 0

\* Month::num_days(year)
num_days(m, y) ==
    IF m = 2 THEN (IF is_leap_year(y) THEN 29 ELSE 28)
    ELSE IF m \in {4, 6, 9, 11} THEN 30 ELSE 31

\* dt + chrono::Duration::days(n)
add_days(dt, n) == dt + n * HoursPerDay

\* DateTime::checked_add_months: the day of month is clamped to the length of
\* the target month, the time of day is kept
checked_add_months(dt, months) ==
    LET c  == Civil(DayNumber(dt))
        mi == (c.year * 12 + (c.month - 1)) + months
        y  == mi \div 12
        m  == (mi % 12) + 1
        dm == num_days(m, y)
        d  == IF c.day > dm THEN dm ELSE c.day
    IN  At(y, m, d, HourOfDay(dt))

\* `x as u8` of a non-negative integer
as_u8(x) == x % 256

(***************************************************************************)
(* src/ical/rrule.rs: selectors                                            *)
(***************************************************************************)
\* ByMonthDayDay::matches
ByMonthDayDay_matches(self, dt) ==
    IF self.month_day > 0
    THEN day(dt) = self.month_day
    ELSE LET month_days == num_days(month(dt), year(dt))
         IN  as_u8(Abs(self.month_day)) = ((month_days - day(dt)) \div 7) + 1

\* ByDayDay::matches
ByDayDay_matches(self, dt) ==
    IF weekday(dt) = self.week_day
    THEN IF is_some(self.n)
         THEN LET n == unwrap(self.n)
              IN  IF n > 0
                  THEN as_u8(Abs(n)) = (day(dt) \div 7) + 1
                  ELSE LET month_days == num_days(month(dt), year(dt))
                       IN  as_u8(Abs(n)) = ((month_days - day(dt)) \div 7) + 1
         ELSE TRUE
    ELSE FALSE

\* RRule::byday_matches
byday_matches(self, dt) ==
    self.byday = <<>> \/ \E i \in 1..Len(self.byday) : ByDayDay_matches(self.byday[i], dt)

\* bymonthday_matches without the case of an empty selector list
bymonthday_matches_some(self, dt) ==
    \E i \in 1..Len(self.bymonthday) : ByMonthDayDay_matches(self.bymonthday[i], dt)

\* RRule::bymonthday_matches
bymonthday_matches(self, dt) ==
    self.bymonthday = <<>>
        \/ \E i \in 1..Len(self.bymonthday) : ByMonthDayDay_matches(self.bymonthday[i], dt)

\* the key the sort in RRule::from_str compares by-day selectors by
byday_sort_key(week_start, d) ==
    IF week_start = "Mon"
    THEN number_from_monday(d.week_day)
    ELSE number_from_sunday(d.week_day)

\* stable insertion of d into a list sorted by byday_sort_key
RECURSIVE byday_insert(_, _, _)
byday_insert(week_start, sorted, d) ==
    IF sorted = <<>>
    THEN <<d>>
    ELSE LET last == sorted[Len(sorted)]
         IN  IF byday_sort_key(week_start, last) <= byday_sort_key(week_start, d)
             THEN Append(sorted, d)
             ELSE Append(byday_insert(week_start, SubSeq(sorted, 1, Len(sorted) - 1), d), last)

\* byday.sort_by(..) of RRule::from_str: a stable sort
RECURSIVE byday_sort(_, _)
byday_sort(week_start, byday) ==
    IF byday = <<>>
    THEN <<>>
    ELSE byday_insert(week_start,
                      byday_sort(week_start, SubSeq(byday, 1, Len(byday) - 1)),
                      byday[Len(byday)])

\* the rule RRule::from_str builds from the parsed rule parts
\* (absent WKST is Monday, absent INTERVAL is 1, the by-day list is sorted)
RRule(frequency, until, count, interval, week_start, byday, bymonthday, bymonth, bysetpos) ==
    LET ws == IF is_some(week_start) THEN unwrap(week_start) ELSE "Mon"
    IN  [frequency  |-> frequency,
         until      |-> until,
         count      |-> count,
         interval   |-> IF is_some(interval) THEN unwrap(interval) ELSE 1,
         week_start |-> ws,
         byday      |-> byday_sort(ws, byday),
         bymonthday |-> bymonthday,
         byweekno   |-> <<>>,
         bymonth    |-> bymonth,
         byyearday  |-> <<>>,
         bysetpos   |-> bysetpos]

\* a by-day selector as ByDayDay::parse builds it
ByDayDay(n, week_day) == [week_day |-> week_day, n |-> n]

\* a month-day selector as ByMonthDayDay::try_from builds it
ByMonthDayDay(value) == [month_day |-> value]

(***************************************************************************)
(* src/ical/mod.rs: Event and EventIter                                    *)
(***************************************************************************)
\* struct Event; the field `event` is the opaque property bag
Event(uid, start_dt, end_dt, rrule, created_dt) ==
    [uid        |-> uid,
     start_dt   |-> start_dt,
     end_dt     |-> end_dt,
     rrule      |-> rrule,
     event      |-> <<"VEVENT", uid>>,
     created_dt |-> created_dt]

\* EventIter::from starting the emitted count at one
EventIter_from_count_one(ev) ==
    [original_event |-> ev,
     last_start_dt  |-> ev.start_dt,
     count          |-> 1]

\* EventIter::from taking the creation instant for the last emitted start
EventIter_from_created(ev) ==
    [original_event |-> ev,
     last_start_dt  |-> ev.created_dt,
     count          |-> 0]

\* impl From<Event> for EventIter
EventIter_from(ev) ==
    [original_event |-> ev,
     last_start_dt  |-> ev.start_dt,
     count          |-> 0]

\* Event::recurring resuming after what was returned already, instead of
\* making a fresh iterator
recurring_resumed(self) ==
    [EventIter_from(self) EXCEPT
        !.count = Len(stream),
        !.last_start_dt = IF stream = <<>> THEN self.start_dt
                          ELSE stream[Len(stream)].start_dt]

\* Event::recurring
recurring(self) == EventIter_from(self)

\* Event::starts_within
starts_within(self, start_date, end_date) ==
    CASE start_date = None /\ end_date = None -> TRUE
      [] start_date # None /\ end_date = None -> self.start_dt >= unwrap(start_date)
      [] start_date = None /\ end_date # None -> self.start_dt <= unwrap(end_date)
      [] OTHER -> self.start_dt >= unwrap(start_date) /\ self.start_dt <= unwrap(end_date)

\* EventIter::next, second arm: the last emitted start is past UNTIL
until_passed(self, rrule) ==
    is_some(rrule.until) /\ self.last_start_dt > unwrap(rrule.until)

\* the COUNT arm comparing with > instead of >=
count_reached_strict(self, rrule) ==
    is_some(rrule.count) /\ self.count > unwrap(rrule.count)

\* EventIter::next, third arm: COUNT occurrences have been emitted
count_reached(self, rrule) ==
    is_some(rrule.count) /\ self.count >= unwrap(rrule.count)

\* next_monthly giving up on BYMONTH only
monthly_unsupported_bymonth_only(rrule) ==
    rrule.bymonth # <<>>

\* EventIter::next_monthly: the by-parts Monthly expansion gives up on
monthly_unsupported(rrule) ==
    rrule.bymonth # <<>> \/ rrule.bysetpos # <<>>

\* the weekly walk jumping a whole interval of weeks on the week's first day
weekly_advance_whole_interval(rrule, dt) ==
    LET d1 == add_days(dt, 1)
    IN  IF weekday(d1) = rrule.week_start
        THEN add_days(d1, 7 * rrule.interval)
        ELSE d1

\* one step of the weekly walk: the next day, and on the week's first day
\* a jump over the weeks the interval skips
weekly_advance(rrule, dt) ==
    LET d1 == add_days(dt, 1)
    IN  IF weekday(d1) = rrule.week_start
        THEN add_days(d1, 7 * (rrule.interval - 1))
        ELSE d1

\* the monthly walk jumping a whole interval of months on day 1
monthly_advance_whole_interval(rrule, dt) ==
    LET d1 == add_days(dt, 1)
    IN  IF day(d1) = 1
        THEN checked_add_months(d1, rrule.interval)
        ELSE d1

\* one step of the monthly walk: the next day, and on day 1 of a month
\* a jump over the months the interval skips
monthly_advance(rrule, dt) ==
    LET d1 == add_days(dt, 1)
    IN  IF day(d1) = 1
        THEN checked_add_months(d1, rrule.interval - 1)
        ELSE d1

\* the UNTIL guard of the walks comparing with >= instead of >
past_until_inclusive(rrule, dt) ==
    is_some(rrule.until) /\ dt >= unwrap(rrule.until)

\* the guard `Some(until_date) if next_date > *until_date` of both walks
past_until(rrule, dt) ==
    is_some(rrule.until) /\ dt > unwrap(rrule.until)

\* the accepted occurrence built as a single event, without the rule
shifted_without_rule(self, dt) ==
    LET diff == dt - self.original_event.start_dt
    IN  [self.original_event EXCEPT !.end_dt = self.original_event.end_dt + diff,
                                    !.start_dt = dt,
                                    !.rrule = None]

\* the accepted occurrence with its end shifted from the last emitted start
shifted_from_last(self, dt) ==
    LET diff == dt - self.last_start_dt
    IN  [self.original_event EXCEPT !.end_dt = self.original_event.end_dt + diff,
                                    !.start_dt = dt]

\* the occurrence both walks build for an accepted date
shifted(self, dt) ==
    LET diff == dt - self.original_event.start_dt
    IN  [self.original_event EXCEPT !.end_dt = self.original_event.end_dt + diff,
                                    !.start_dt = dt]

\* the walk is followed while it is within MaxWalkDays days of the base
InHorizon(dt) ==
    Abs(DayNumber(dt) - DayNumber(event.start_dt)) < MaxWalkDays

\* EventIter::next counting a call that returns None
ReturnNone_counted ==
    /\ ret' = None
    /\ pc' = "done"
    /\ iter' = [iter EXCEPT !.count = iter.count + 1]
    /\ UNCHANGED <<stream, next_date>>

\* EventIter::next returns None
ReturnNone ==
    /\ ret' = None
    /\ pc' = "done"
    /\ UNCHANGED <<iter, stream, next_date>>

\* EventIter::next returning a walked occurrence without recording its start
ReturnWalked_start_kept(ev) ==
    /\ iter' = [iter EXCEPT !.count = iter.count + 1]
    /\ ret' = Some(ev)
    /\ stream' = Append(stream, ev)
    /\ pc' = "filter"

\* a walk returns Some(ev) and EventIter::next counts and returns it
ReturnWalked(ev) ==
    /\ iter' = [iter EXCEPT !.count = iter.count + 1, !.last_start_dt = ev.start_dt]
    /\ ret' = Some(ev)
    /\ stream' = Append(stream, ev)
    /\ pc' = "filter"

\* EventIter::next up to the entry of the weekly or monthly walk
next ==
    /\ pc = "pull"
    /\ IF iter.count = 0
       THEN /\ iter' = [iter EXCEPT !.count = iter.count + 1]
            /\ ret' = Some(iter.original_event)
            /\ stream' = Append(stream, iter.original_event)
            /\ pc' = "filter"
            /\ UNCHANGED next_date
       ELSE IF iter.original_event.rrule = None
       THEN ReturnNone
       ELSE LET rrule == unwrap(iter.original_event.rrule)
            IN  IF until_passed(iter, rrule) \/ count_reached(iter, rrule)
                THEN ReturnNone
                ELSE IF rrule.frequency = "Weekly"
                THEN /\ next_date' = iter.last_start_dt
                     /\ pc' = "next_weekly"
                     /\ UNCHANGED <<iter, ret, stream>>
                ELSE IF rrule.frequency = "Monthly" /\ ~monthly_unsupported(rrule)
                THEN /\ next_date' = iter.last_start_dt
                     /\ pc' = "next_monthly"
                     /\ UNCHANGED <<iter, ret, stream>>
                ELSE ReturnNone
    /\ UNCHANGED <<event, config, events>>
    /\ UNCHANGED <<parse_vars, main_vars, first>>

\* the body of the loop of EventIter::next_weekly
next_weekly_loop ==
    LET rrule == unwrap(iter.original_event.rrule)
        nd    == weekly_advance(rrule, next_date)
    IN  IF past_until(rrule, nd)
        THEN ReturnNone
        ELSE IF byday_matches(rrule, nd)
        THEN /\ ReturnWalked(shifted(iter, nd))
             /\ next_date' = nd
        ELSE /\ next_date' = nd
             /\ UNCHANGED <<iter, ret, stream, pc>>

\* one iteration of the loop of EventIter::next_weekly
next_weekly ==
    /\ pc = "next_weekly"
    /\ InHorizon(next_date)
    /\ next_weekly_loop
    /\ UNCHANGED <<event, config, events>>
    /\ UNCHANGED <<parse_vars, main_vars, first>>

\* the body of the loop of EventIter::next_monthly
next_monthly_loop ==
    LET rrule == unwrap(iter.original_event.rrule)
        nd    == monthly_advance(rrule, next_date)
    IN  IF past_until(rrule, nd)
        THEN ReturnNone
        ELSE IF bymonthday_matches(rrule, nd) /\ byday_matches(rrule, nd)
        THEN /\ ReturnWalked(shifted(iter, nd))
             /\ next_date' = nd
        ELSE /\ next_date' = nd
             /\ UNCHANGED <<iter, ret, stream, pc>>

\* one iteration of the loop of EventIter::next_monthly
next_monthly ==
    /\ pc = "next_monthly"
    /\ InHorizon(next_date)
    /\ next_monthly_loop
    /\ UNCHANGED <<event, config, events>>
    /\ UNCHANGED <<parse_vars, main_vars, first>>

\* relevant_events: the filter closure on the occurrence just produced, and
\* collect's push of it; the upper bound of the window is always present
collect ==
    /\ pc = "filter"
    /\ events' = IF starts_within(unwrap(ret), config.start_date, Some(config.until_date))
                 THEN Append(events, unwrap(ret))
                 ELSE events
    /\ pc' = "pull"
    /\ UNCHANGED <<event, config, iter, next_date, ret, stream>>
    /\ UNCHANGED <<parse_vars, main_vars, first>>

(***************************************************************************)
(* The events, rules and windows the expansion is run on                   *)
(***************************************************************************)
\* start, end and creation instants of the base occurrences:
\* Mon 2025-01-06 09-10, Tue 2025-01-14 14-15, Wed 2024-01-31 09 to the
\* next day 10 (leap year), Tue 2025-09-09 14-15
BaseTimes ==
    { [start_dt |-> At(2025, 1, 6, 9),  end_dt |-> At(2025, 1, 6, 10)],
      [start_dt |-> At(2025, 1, 14, 14), end_dt |-> At(2025, 1, 14, 15)],
      [start_dt |-> At(2024, 1, 31, 9),  end_dt |-> At(2024, 2, 1, 10)],
      [start_dt |-> At(2025, 9, 9, 14), end_dt |-> At(2025, 9, 9, 15)] }

\* CREATED precedes DTSTART by this many days in the events of the model
CreatedDaysBefore == 10

\* UNTIL instants, as offsets in hours from the base start: before the base,
\* one week later to the hour, an hour short of that, four weeks later
UntilOffsets == {0 - HoursPerDay, 7 * HoursPerDay, 7 * HoursPerDay - 1, 28 * HoursPerDay}

Counts == {0, 1, 2, 3, 6}

\* UNTIL and COUNT of a rule: at most one of them is set
Terminations(start) ==
    {[until |-> None, count |-> None]}
        \cup {[until |-> None, count |-> Some(c)] : c \in Counts}
        \cup {[until |-> Some(start + o), count |-> None] : o \in UntilOffsets}

Intervals == {None, Some(2)}

WeekStarts == {None, Some("Sun"), Some("Wed")}

WeeklyByDays ==
    { <<>>,
      <<ByDayDay(None, "Fri"), ByDayDay(None, "Mon"), ByDayDay(None, "Wed")>>,
      <<ByDayDay(Some(1), "Tue")>>,
      <<ByDayDay(Some(2), "Tue")>>,
      <<ByDayDay(Some(-1), "Fri")>> }

\* -257FR is a selector ByDayDay::parse accepts: it refuses an ordinal only
\* when it is 0 or above 4
MonthlyByDays ==
    { <<>>, <<ByDayDay(Some(2), "Tue")>>, <<ByDayDay(Some(-1), "Fri")>>,
      <<ByDayDay(Some(-257), "Fri")>> }

MonthlyByMonthDays ==
    { <<>>, <<ByMonthDayDay(-1)>>, <<ByMonthDayDay(15)>>,
      <<ByMonthDayDay(31), ByMonthDayDay(-2)>> }

UnsupportedByParts ==
    { [bymonth |-> <<3>>, bysetpos |-> <<>>],
      [bymonth |-> <<>>, bysetpos |-> <<1>>],
      [bymonth |-> <<3>>, bysetpos |-> <<1>>] }

OtherFrequencies == {"Secondly", "Minutely", "Hourly", "Daily", "Yearly"}

WeeklyRules(start) ==
    { RRule("Weekly", t.until, t.count, i, w, bd, <<>>, <<>>, <<>>) :
        t \in Terminations(start), i \in Intervals, w \in WeekStarts, bd \in WeeklyByDays }

MonthlyRules(start) ==
    { RRule("Monthly", t.until, t.count, i, None, bd, bmd, <<>>, <<>>) :
        t \in Terminations(start), i \in Intervals,
        bd \in MonthlyByDays, bmd \in MonthlyByMonthDays }

MonthlyUnsupportedRules(start) ==
    { RRule("Monthly", t.until, t.count, i, None, <<>>, bmd, u.bymonth, u.bysetpos) :
        t \in Terminations(start), i \in Intervals,
        bmd \in {<<>>, <<ByMonthDayDay(-1)>>}, u \in UnsupportedByParts }

OtherRules(start) ==
    { RRule(f, t.until, t.count, i, None, <<>>, <<>>, <<>>, <<>>) :
        f \in OtherFrequencies, t \in Terminations(start), i \in Intervals }

\* the rrule field of an event: no rule, or a rule RRule::from_str returns
Rules(start) ==
    {None} \cup { Some(r) : r \in WeeklyRules(start) \cup MonthlyRules(start)
                                   \cup MonthlyUnsupportedRules(start) \cup OtherRules(start) }

\* the query window: an optional lower bound and the upper bound
\* (config.end_date, or the current time when it is absent)
Windows(start) ==
    { [start_date |-> None, until_date |-> start + 14 * HoursPerDay],
      [start_date |-> Some(start + 7 * HoursPerDay), until_date |-> start + 14 * HoursPerDay] }

Init ==
    /\ \E b \in BaseTimes : \E r \in Rules(b.start_dt) :
          event = Event("uid-1", b.start_dt, b.end_dt, r,
                        b.start_dt - CreatedDaysBefore * HoursPerDay)
    /\ config \in Windows(event.start_dt)
    /\ stream = <<>>
    /\ iter = recurring(event)
    /\ pc = "pull"
    /\ next_date = event.start_dt
    /\ ret = None
    /\ events = <<>>
    /\ rule_text = ""
    /\ overflow_checks = FALSE
    /\ parsed = None
    /\ calendar = <<>>
    /\ idx = 1
    /\ main_events = <<>>
    /\ deduplicated_events = <<>>
    /\ mpc = "relevant_events"
    /\ first = None

Next ==
    \/ next
    \/ next_weekly
    \/ next_monthly
    \/ collect

Spec == Init /\ [][Next]_vars

(***************************************************************************)
(* Text: str operations of the standard library, on TLA+ strings           *)
(***************************************************************************)
\* the i-th character of s, as a string of length one
Char(s, i) == SubSeq(s, i, i)

\* the position of the first occurrence of the character c in s at or after
\* position i, 0 when there is none
RECURSIVE find(_, _, _)
find(s, c, i) ==
    IF i > Len(s) THEN 0
    ELSE IF Char(s, i) = c THEN i
    ELSE find(s, c, i + 1)

\* str::split(sep): the pieces between the separators, at least one piece
RECURSIVE split(_, _)
split(s, sep) ==
    LET k == find(s, sep, 1)
    IN  IF k = 0
        THEN <<s>>
        ELSE <<SubSeq(s, 1, k - 1)>> \o split(SubSeq(s, k + 1, Len(s)), sep)

\* str::split_once(sep)
split_once(s, sep) ==
    LET k == find(s, sep, 1)
    IN  IF k = 0
        THEN None
        ELSE Some(<<SubSeq(s, 1, k - 1), SubSeq(s, k + 1, Len(s))>>)

LowerCase == "abcdefghijklmnopqrstuvwxyz"

UpperCase == "ABCDEFGHIJKLMNOPQRSTUVWXYZ"

\* str::to_uppercase, on ASCII text
RECURSIVE to_uppercase(_)
to_uppercase(s) ==
    IF s = "" THEN ""
    ELSE LET k == find(LowerCase, Char(s, 1), 1)
         IN  (IF k = 0 THEN Char(s, 1) ELSE Char(UpperCase, k))
                 \o to_uppercase(SubSeq(s, 2, Len(s)))

Digits == "0123456789"

is_digit(c) == find(Digits, c, 1) # 0

digit_value(c) == find(Digits, c, 1) - 1

all_digits(s) == \A i \in 1..Len(s) : is_digit(Char(s, i))

\* the largest magnitude the integers of the model hold; an i32 or u32 text
\* above it is outside the inputs of the model
IntCap == 2147483647

\* the value of a string of digits, -1 when it exceeds cap
RECURSIVE magnitude(_, _, _)
magnitude(s, acc, cap) ==
    IF s = "" THEN acc
    ELSE LET d == digit_value(Char(s, 1))
         IN  IF acc > (cap - d) \div 10
             THEN 0 - 1
             ELSE magnitude(SubSeq(s, 2, Len(s)), acc * 10 + d, cap)

\* <integer type>::from_str: an optional sign (`-` for signed types only),
\* then one digit or more; None stands for the ParseIntError
parse_int(s, signed, lo, hi) ==
    LET neg    == signed /\ Len(s) >= 1 /\ Char(s, 1) = "-"
        pos    == Len(s) >= 1 /\ Char(s, 1) = "+"
        digits == IF neg \/ pos THEN SubSeq(s, 2, Len(s)) ELSE s
    IN  IF digits = "" \/ ~all_digits(digits)
        THEN None
        ELSE LET m == magnitude(digits, 0, IF hi > 0 - lo THEN hi ELSE 0 - lo)
                 v == IF neg THEN 0 - m ELSE m
             IN  IF m < 0 \/ v < lo \/ v > hi THEN None ELSE Some(v)

parse_u8(s) == parse_int(s, FALSE, 0, 255)

parse_i8(s) == parse_int(s, TRUE, 0 - 128, 127)

parse_i16(s) == parse_int(s, TRUE, 0 - 32768, 32767)

parse_i32(s) == parse_int(s, TRUE, 0 - IntCap, IntCap)

parse_u32(s) == parse_int(s, FALSE, 0, IntCap)

(***************************************************************************)
(* Results: Ok(value), Err(rule part or reason), or a panic                *)
(***************************************************************************)
Ok(v) == [kind |-> "Ok", value |-> v]

Err(e) == [kind |-> "Err", value |-> e]

Panic(e) == [kind |-> "Panic", value |-> e]

(***************************************************************************)
(* src/ical/parse.rs                                                       *)
(***************************************************************************)
\* NaiveDateTime::parse_from_str(s, "%Y%m%dT%H%M%S") on a text of eight
\* digits, `T` and six digits; every other text is an error here (the texts
\* of the model have this layout or hold a non-digit).  The instant is
\* given to the hour; the local time zone is UTC.
NaiveDateTime_parse_from_str(s) ==
    IF Len(s) # 15 \/ ~all_digits(SubSeq(s, 1, 8)) \/ Char(s, 9) # "T"
          \/ ~all_digits(SubSeq(s, 10, 15))
    THEN None
    ELSE LET y  == magnitude(SubSeq(s, 1, 4), 0, 9999)
             m  == magnitude(SubSeq(s, 5, 6), 0, 99)
             d  == magnitude(SubSeq(s, 7, 8), 0, 99)
             hh == magnitude(SubSeq(s, 10, 11), 0, 99)
             mm == magnitude(SubSeq(s, 12, 13), 0, 99)
             ss == magnitude(SubSeq(s, 14, 15), 0, 99)
         IN  IF m \in 1..12 /\ d >= 1 /\ d <= num_days(m, y)
                   /\ hh <= 23 /\ mm <= 59 /\ ss <= 59
             THEN Some(At(y, m, d, hh))
             ELSE None

\* the property parameters hold VALUE=DATE
is_date_param(params) ==
    /\ params # None
    /\ \E i \in 1..Len(unwrap(params)) :
          LET p == unwrap(params)[i]
          IN  /\ to_uppercase(p[1]) = "VALUE"
              /\ p[2] # <<>>
              /\ to_uppercase(p[2][1]) = "DATE"

\* parse::datetime; the properties of the model carry no TZID.
\* str::split_at(15) panics on a text shorter than 15 bytes.
datetime(s, params) ==
    IF ~is_date_param(params) /\ Len(s) < 15
    THEN Panic("split_at")
    ELSE LET datetime_s == IF is_date_param(params)
                           THEN s \o "T000000"
                           ELSE SubSeq(s, 1, 15)
             parsed_dt  == NaiveDateTime_parse_from_str(datetime_s)
         IN  IF parsed_dt = None THEN Err("datetime") ELSE Ok(unwrap(parsed_dt))

\* parse::week_day
week_day(s) ==
    CASE s = "MO" -> Some("Mon")
      [] s = "TU" -> Some("Tue")
      [] s = "WE" -> Some("Wed")
      [] s = "TH" -> Some("Thu")
      [] s = "FR" -> Some("Fri")
      [] s = "SA" -> Some("Sat")
      [] s = "SU" -> Some("Sun")
      [] OTHER -> None

(***************************************************************************)
(* src/ical/rrule.rs: the parser of the rule text                          *)
(***************************************************************************)
\* EventFrequency::from_str
EventFrequency_from_str(s) ==
    CASE s = "SECONDLY" -> Some("Secondly")
      [] s = "MINUTELY" -> Some("Minutely")
      [] s = "HOURLY" -> Some("Hourly")
      [] s = "DAILY" -> Some("Daily")
      [] s = "WEEKLY" -> Some("Weekly")
      [] s = "MONTHLY" -> Some("Monthly")
      [] s = "YEARLY" -> Some("Yearly")
      [] OTHER -> None

\* ByMonthDayDay::try_from(i8)
ByMonthDayDay_try_from(value) ==
    IF value > 31 \/ value < 0 - 31 \/ value = 0
    THEN None
    ELSE Some(ByMonthDayDay(value))

\* ByDayDay::parse
ByDayDay_parse(s) ==
    IF Len(s) = 2
    THEN IF week_day(s) = None THEN None ELSE Some(ByDayDay(None, unwrap(week_day(s))))
    ELSE IF Len(s) > 2
    THEN LET n  == parse_i32(SubSeq(s, 1, Len(s) - 2))
             wd == SubSeq(s, Len(s) - 1, Len(s))
         IN  IF n = None THEN None
             ELSE IF unwrap(n) > 4 \/ unwrap(n) = 0 THEN None
             ELSE IF week_day(wd) = None THEN None
             ELSE Some(ByDayDay(n, unwrap(week_day(wd))))
    ELSE None

ORDYRNUM_MAX == 366

\* the locals of RRule::from_str before its loop
NoParts ==
    [frequency  |-> None, until |-> None, count |-> None, interval |-> None,
     week_start |-> None, byday |-> <<>>, byweekno |-> <<>>, bymonth |-> <<>>,
     bymonthday |-> <<>>, byyearday |-> <<>>, bysetpos |-> <<>>]

\* Option<T> to the result of an item of a list: None is the item's error
item_of(o, name) == IF o = None THEN Err(name) ELSE Ok(unwrap(o))

\* the loop over the items of a comma-separated list: the values when every
\* item is good, otherwise the outcome of the first item that is not
collect_items(outs) ==
    IF \A i \in 1..Len(outs) : outs[i].kind = "Ok"
    THEN Ok([i \in 1..Len(outs) |-> outs[i].value])
    ELSE outs[CHOOSE i \in 1..Len(outs) :
                /\ outs[i].kind # "Ok"
                /\ \A j \in 1..(i - 1) : outs[j].kind = "Ok"]

\* RRule::parse_frequency
parse_frequency(s, st) ==
    IF st.frequency # None THEN Err("FREQ")
    ELSE IF EventFrequency_from_str(s) = None THEN Err("FREQ")
    ELSE Ok([st EXCEPT !.frequency = EventFrequency_from_str(s)])

\* RRule::parse_until
parse_until(s, st) ==
    IF st.until # None THEN Err("UNTIL")
    ELSE LET dt == datetime(s, None)
         IN  CASE dt.kind = "Panic" -> dt
               [] dt.kind = "Err" -> Err("UNTIL")
               [] OTHER -> Ok([st EXCEPT !.until = Some(dt.value)])

\* RRule::parse_count
parse_count(s, st) ==
    IF st.count # None THEN Err("COUNT")
    ELSE IF parse_u32(s) = None THEN Err("COUNT")
    ELSE Ok([st EXCEPT !.count = parse_u32(s)])

\* parse_interval without the refusal of 0
parse_interval_zero_allowed(s, st) ==
    IF st.interval # None THEN Err("INTERVAL")
    ELSE IF parse_u32(s) = None THEN Err("INTERVAL")
    ELSE Ok([st EXCEPT !.interval = parse_u32(s)])

\* RRule::parse_interval
parse_interval(s, st) ==
    IF st.interval # None THEN Err("INTERVAL")
    ELSE IF parse_u32(s) = None THEN Err("INTERVAL")
    ELSE IF unwrap(parse_u32(s)) = 0 THEN Err("INTERVAL")
    ELSE Ok([st EXCEPT !.interval = parse_u32(s)])

\* RRule::parse_wkst
parse_wkst(s, st) ==
    IF st.week_start # None THEN Err("WKST")
    ELSE IF week_day(s) = None THEN Err("WKST")
    ELSE Ok([st EXCEPT !.week_start = week_day(s)])

\* RRule::parse_byday
parse_byday(s, st) ==
    IF st.byday # <<>> THEN Err("BYDAY")
    ELSE LET items == split(s, ",")
             days  == collect_items([i \in 1..Len(items) |->
                                       item_of(ByDayDay_parse(items[i]), "BYDAY")])
         IN  IF days.kind # "Ok" THEN days
             ELSE IF days.value = <<>> THEN Err("BYDAY")
             ELSE Ok([st EXCEPT !.byday = days.value])

\* RRule::parse_byweekno
parse_byweekno(s, st) ==
    IF st.byweekno # <<>> THEN Err("BYWEEKNO")
    ELSE LET items == split(s, ",")
             nums  == collect_items([i \in 1..Len(items) |->
                                       item_of(parse_i8(items[i]), "BYWEEKNO")])
         IN  IF nums.kind # "Ok" THEN nums
             ELSE IF nums.value = <<>> THEN Err("BYWEEKNO")
             ELSE Ok([st EXCEPT !.byweekno = nums.value])

\* the ascending order bymonth.sort() puts u8 values in
RECURSIVE sort_ascending(_)
sort_ascending(q) ==
    IF q = <<>> THEN <<>>
    ELSE LET k    == CHOOSE i \in 1..Len(q) : \A j \in 1..Len(q) : q[i] <= q[j]
             rest == [i \in 1..(Len(q) - 1) |-> IF i < k THEN q[i] ELSE q[i + 1]]
         IN  <<q[k]>> \o sort_ascending(rest)

\* RRule::parse_bymonth
parse_bymonth(s, st) ==
    IF st.bymonth # <<>> THEN Err("BYMONTH")
    ELSE LET items == split(s, ",")
             nums  == collect_items([i \in 1..Len(items) |->
                                       item_of(parse_u8(items[i]), "BYMONTH")])
         IN  IF nums.kind # "Ok" THEN nums
             ELSE IF nums.value = <<>> THEN Err("BYMONTH")
             ELSE Ok([st EXCEPT !.bymonth = sort_ascending(nums.value)])

\* one item of RRule::parse_bymonthday
bymonthday_item(s) ==
    IF parse_i8(s) = None THEN Err("BYMONTHDAY")
    ELSE item_of(ByMonthDayDay_try_from(unwrap(parse_i8(s))), "BYMONTHDAY")

\* RRule::parse_bymonthday
parse_bymonthday(s, st) ==
    IF st.bymonthday # <<>> THEN Err("BYMONTHDAY")
    ELSE LET items == split(s, ",")
             days  == collect_items([i \in 1..Len(items) |-> bymonthday_item(items[i])])
         IN  IF days.kind # "Ok" THEN days
             ELSE IF days.value = <<>> THEN Err("BYMONTHDAY")
             ELSE Ok([st EXCEPT !.bymonthday = days.value])

\* one item of RRule::parse_byyearday and RRule::parse_bysetpos: i16::abs of
\* i16::MIN overflows, which panics in a build with overflow checks and
\* gives i16::MIN back in a build without
year_ordinal_item(s, name) ==
    IF parse_i16(s) = None THEN Err(name)
    ELSE LET d == unwrap(parse_i16(s))
         IN  IF d = 0 - 32768
             THEN (IF overflow_checks THEN Panic("abs") ELSE Ok(d))
             ELSE IF Abs(d) > ORDYRNUM_MAX THEN Err(name) ELSE Ok(d)

\* RRule::parse_byyearday
parse_byyearday(s, st) ==
    IF st.byyearday # <<>> THEN Err("BYYEARDAY")
    ELSE LET items == split(s, ",")
             nums  == collect_items([i \in 1..Len(items) |->
                                       year_ordinal_item(items[i], "BYYEARDAY")])
         IN  IF nums.kind # "Ok" THEN nums
             ELSE IF nums.value = <<>> THEN Err("BYYEARDAY")
             ELSE Ok([st EXCEPT !.byyearday = nums.value])

\* RRule::parse_bysetpos
parse_bysetpos(s, st) ==
    IF st.bysetpos # <<>> THEN Err("BYSETPOS")
    ELSE LET items == split(s, ",")
             nums  == collect_items([i \in 1..Len(items) |->
                                       year_ordinal_item(items[i], "BYSETPOS")])
         IN  IF nums.kind # "Ok" THEN nums
             ELSE IF nums.value = <<>> THEN Err("BYSETPOS")
             ELSE Ok([st EXCEPT !.bysetpos = nums.value])

\* the body of the loop of RRule::from_str for one `;`-separated parameter
from_str_param(param, st) ==
    IF split_once(param, "=") = None
    THEN Err("parameter")
    ELSE LET name  == to_uppercase(unwrap(split_once(param, "="))[1])
             value == unwrap(split_once(param, "="))[2]
         IN  CASE name = "FREQ" -> parse_frequency(value, st)
               [] name = "UNTIL" -> parse_until(value, st)
               [] name = "COUNT" -> parse_count(value, st)
               [] name = "INTERVAL" -> parse_interval(value, st)
               [] name = "WKST" -> parse_wkst(value, st)
               [] name = "BYDAY" -> parse_byday(value, st)
               [] name = "BYWEEKNO" -> parse_byweekno(value, st)
               [] name = "BYMONTH" -> parse_bymonth(value, st)
               [] name = "BYMONTHDAY" -> parse_bymonthday(value, st)
               [] name = "BYYEARDAY" -> parse_byyearday(value, st)
               [] name = "BYSETPOS" -> parse_bysetpos(value, st)
               [] OTHER -> Ok(st)

\* the loop of RRule::from_str from the i-th parameter on; from_str_step
\* is the `?` on the outcome r of the i-th parameter
RECURSIVE from_str_loop(_, _, _), from_str_step(_, _, _)
from_str_loop(params, i, st) ==
    IF i > Len(params)
    THEN Ok(st)
    ELSE from_str_step(params, i, from_str_param(params[i], st))

from_str_step(params, i, r) ==
    IF r.kind = "Ok" THEN from_str_loop(params, i + 1, r.value) ELSE r

\* RRule::from_str after its loop, on the rule parts st the loop has set
from_str_build(st) ==
    IF st.until # None /\ st.count # None THEN Err("UNTIL and COUNT")
    ELSE IF st.frequency = None THEN Err("No FREQ")
    ELSE Ok([RRule(unwrap(st.frequency), st.until, st.count, st.interval,
                   st.week_start, st.byday, st.bymonthday, st.bymonth, st.bysetpos)
               EXCEPT !.byweekno = st.byweekno, !.byyearday = st.byyearday])

\* RRule::from_str on the outcome r of its loop
from_str_end(r) == IF r.kind # "Ok" THEN r ELSE from_str_build(r.value)

\* RRule::from_str
RRule_from_str(s) == from_str_end(from_str_loop(split(s, ";"), 1, NoParts))

(***************************************************************************)
(* The rule texts RRule::from_str is run on                                *)
(***************************************************************************)
\* the `;`-separated parameters the rule texts are made of: every recognized
\* name, names in lower case, values the parsers refuse, an UNTIL in the
\* date-only form, the smallest i16, an unknown name, a parameter without `=`
RuleParts ==
    { "FREQ=WEEKLY", "freq=MONTHLY", "FREQ=weekly",
      "UNTIL=20250101T000000Z", "UNTIL=20250101", "UNTIL=20251301T000000",
      "COUNT=3", "INTERVAL=0", "INTERVAL=2", "WKST=SU",
      "BYDAY=MO,2TU", "BYDAY=5MO", "BYDAY=-5MO", "BYDAY=-6MO", "BYDAY=0MO",
      "BYWEEKNO=1", "BYMONTH=6", "BYMONTH=13", "BYMONTH=0",
      "BYMONTHDAY=-1", "BYYEARDAY=-32768", "BYSETPOS=1",
      "X-FOO=1", "COUNT" }

\* a rule text has at most this many parameters
MaxParts == 2

RECURSIVE join(_, _)
join(parts, sep) ==
    IF Len(parts) = 0 THEN ""
    ELSE IF Len(parts) = 1 THEN parts[1]
    ELSE parts[1] \o sep \o join(Tail(parts), sep)

\* longer rule texts: the examples of the documentation, a name repeated
\* with other parameters in between, UNTIL and COUNT apart from each other
LongerRuleTexts ==
    { "FREQ=WEEKLY;WKST=MO;INTERVAL=1;BYDAY=WE,MO,FR;COUNT=6",
      "FREQ=WEEKLY;COUNT=3;UNTIL=20250101T000000Z",
      "UNTIL=20250101T000000Z;FREQ=WEEKLY;BYDAY=MO;COUNT=3",
      "FREQ=MONTHLY;BYMONTHDAY=-1;X-FOO=1;freq=DAILY",
      "BYMONTH=6;FREQ=YEARLY;INTERVAL=2;BYMONTH=6,7",
      "COUNT=3;FREQ=WEEKLY;WKST=SU;count=x",
      "BYSETPOS=-32768;FREQ=MONTHLY;BYDAY=-1FR;BYSETPOS=1",
      "FREQ=MONTHLY;BYDAY=2TU;UNTIL=20250101;INTERVAL=0" }

\* a by-day list out of order under each of the seven week starts, with
\* WKST before and after BYDAY
WeekStartRuleTexts ==
    LET codes == {"MO", "TU", "WE", "TH", "FR", "SA", "SU"}
    IN  { "FREQ=WEEKLY;WKST=" \o w \o ";BYDAY=SA,TU,SU,TH" : w \in codes }
            \cup { "FREQ=WEEKLY;BYDAY=SA,TU,SU,TH;WKST=" \o w : w \in codes }

RuleTexts ==
    { join(q, ";") : q \in UNION { [1..n -> RuleParts] : n \in 1..MaxParts } }
        \cup LongerRuleTexts \cup WeekStartRuleTexts

\* the state before RRule::from_str is called with one of the rule texts, in
\* a build with or without overflow checks; no calendar is being read
ParseInit ==
    /\ rule_text \in RuleTexts
    /\ overflow_checks \in BOOLEAN
    /\ parsed = None
    /\ event = Event("uid-1", At(2025, 1, 6, 9), At(2025, 1, 6, 10), None,
                     At(2025, 1, 6, 9) - CreatedDaysBefore * HoursPerDay)
    /\ config = [start_date |-> None, until_date |-> At(2025, 1, 6, 9)]
    /\ stream = <<>>
    /\ iter = recurring(event)
    /\ pc = "done"
    /\ next_date = event.start_dt
    /\ ret = None
    /\ events = <<>>
    /\ calendar = <<>>
    /\ idx = 1
    /\ main_events = <<>>
    /\ deduplicated_events = <<>>
    /\ mpc = "done"
    /\ first = None

\* the call RRule::from_str(rule_text): parsed holds what it ends with, a
\* rule, an error value or a panic
from_str ==
    /\ parsed = None
    /\ parsed' = Some(RRule_from_str(rule_text))
    /\ UNCHANGED <<rule_text, overflow_checks, main_vars, first>>
    /\ UNCHANGED <<event, config, iter, pc, next_date, ret, events, stream>>

ParseNext == from_str

ParseSpec == ParseInit /\ [][ParseNext]_vars

(***************************************************************************)
(* src/ical/mod.rs: Event::try_from, and src/main.rs: main                 *)
(***************************************************************************)
\* ical::property::Property and ical::parser::ical::component::IcalEvent
IcalProperty(name, params, value) == [name |-> name, params |-> params, value |-> value]

IcalEvent(properties) == [properties |-> properties]

\* the locals of Event::try_from before its loop
NoFields ==
    [start_dt |-> None, end_dt |-> None, created_dt |-> None, uid |-> None, rrule |-> None]

\* Event::parse_dtstart, parse_dtend and parse_created
parse_date_prop(prop) ==
    IF prop.value = None THEN Err("No value")
    ELSE LET dt == datetime(unwrap(prop.value), prop.params)
         IN  IF dt.kind = "Err" THEN Err("Invalid ical date") ELSE dt

\* Event::parse_uuid
parse_uuid(prop) ==
    IF prop.value = None THEN Err("No value") ELSE Ok(unwrap(prop.value))

\* Event::parse_rrule
parse_rrule(prop) ==
    IF prop.value = None THEN Err("invalid RRULE") ELSE RRule_from_str(unwrap(prop.value))

\* `field = Some(parse(prop)?)` on the outcome r of the parse
set_field(f, field, r) ==
    IF r.kind = "Ok" THEN Ok([f EXCEPT ![field] = Some(r.value)]) ELSE r

\* the body of the loop of Event::try_from for one property
try_from_prop(prop, f) ==
    CASE prop.name = "DTSTART" -> set_field(f, "start_dt", parse_date_prop(prop))
      [] prop.name = "DTEND" -> set_field(f, "end_dt", parse_date_prop(prop))
      [] prop.name = "CREATED" -> set_field(f, "created_dt", parse_date_prop(prop))
      [] prop.name = "UID" -> set_field(f, "uid", parse_uuid(prop))
      [] prop.name = "RRULE" -> set_field(f, "rrule", parse_rrule(prop))
      [] OTHER -> Ok(f)

\* the loop of Event::try_from from the i-th property on; try_from_step is
\* the `?` on the outcome r of the i-th property
RECURSIVE try_from_loop(_, _, _), try_from_step(_, _, _)
try_from_loop(properties, i, f) ==
    IF i > Len(properties)
    THEN Ok(f)
    ELSE try_from_step(properties, i, try_from_prop(properties[i], f))

try_from_step(properties, i, r) ==
    IF r.kind = "Ok" THEN try_from_loop(properties, i + 1, r.value) ELSE r

\* Event::try_from after its loop, on the fields f the loop has set
try_from_build(ical, f) ==
    IF f.start_dt = None THEN Err("no DTSTART")
    ELSE IF f.end_dt = None THEN Err("no DTEND")
    ELSE IF f.created_dt = None THEN Err("no CREATED")
    ELSE IF f.uid = None THEN Err("no UID")
    ELSE Ok([Event(unwrap(f.uid), unwrap(f.start_dt), unwrap(f.end_dt),
                   f.rrule, unwrap(f.created_dt))
               EXCEPT !.event = ical])

\* Event::try_from on the outcome r of its loop
try_from_end(ical, r) == IF r.kind # "Ok" THEN r ELSE try_from_build(ical, r.value)

\* impl TryFrom<IcalEvent> for Event
Event_try_from(ical) == try_from_end(ical, try_from_loop(ical.properties, 1, NoFields))

\* relevant_events looks for a SUMMARY property first
has_summary(ical) ==
    \E i \in 1..Len(ical.properties) : ical.properties[i].name = "SUMMARY"

\* main, lines 229-230 and the exits of its two loops: the occurrences of
\* the event are appended, and the loop over the calendar goes on or gives
\* way to the deduplication loop over what was collected
event_done(event_chain) ==
    /\ main_events' = main_events \o event_chain
    /\ IF idx < Len(calendar)
       THEN /\ idx' = idx + 1
            /\ mpc' = "relevant_events"
       ELSE /\ idx' = 1
            /\ mpc' = IF main_events' = <<>> THEN "done" ELSE "dedup"

\* relevant_events on the outcome r of Event::try_from: an error gives no
\* occurrences, a panic ends the process, an event starts its expansion
match_try_from(r) ==
    IF r.kind = "Err"
    THEN /\ event_done(<<>>)
         /\ UNCHANGED <<event, iter, pc, next_date, ret, events, stream>>
    ELSE IF r.kind = "Panic"
    THEN /\ mpc' = "aborted"
         /\ UNCHANGED <<idx, main_events>>
         /\ UNCHANGED <<event, iter, pc, next_date, ret, events, stream>>
    ELSE /\ event' = r.value
         /\ iter' = recurring(r.value)
         /\ pc' = "pull"
         /\ next_date' = r.value.start_dt
         /\ ret' = None
         /\ events' = <<>>
         /\ stream' = <<>>
         /\ mpc' = "expand"
         /\ UNCHANGED <<idx, main_events>>

\* relevant_events up to the expansion; an event without SUMMARY gives no
\* occurrences before Event::try_from is called
relevant_events ==
    /\ mpc = "relevant_events"
    /\ idx <= Len(calendar)
    /\ IF ~has_summary(calendar[idx])
       THEN /\ event_done(<<>>)
            /\ UNCHANGED <<event, iter, pc, next_date, ret, events, stream>>
       ELSE match_try_from(Event_try_from(calendar[idx]))
    /\ UNCHANGED <<config, calendar, deduplicated_events, parse_vars, first>>

\* relevant_events returns what collect gathered, and main appends it
append ==
    /\ mpc = "expand"
    /\ pc = "done"
    /\ event_done(events)
    /\ UNCHANGED <<event, config, iter, pc, next_date, ret, events, stream>>
    /\ UNCHANGED <<calendar, deduplicated_events, parse_vars, first>>

\* DateTime<Utc>::date_naive
date_naive(dt) == DayNumber(dt)

\* an insert that keeps the value a key already has
HashMap_insert_if_absent(map, key, value) ==
    [k \in DOMAIN map \cup {key} |-> IF k \in DOMAIN map THEN map[k] ELSE value]

\* HashMap::insert
HashMap_insert(map, key, value) ==
    [k \in DOMAIN map \cup {key} |-> IF k = key THEN value ELSE map[k]]

\* one iteration of the deduplication loop of main
dedup ==
    /\ mpc = "dedup"
    /\ idx <= Len(main_events)
    /\ LET ev  == main_events[idx]
           date == date_naive(ev.start_dt)
       IN  deduplicated_events' =
             IF date \in DOMAIN deduplicated_events
             THEN [deduplicated_events EXCEPT
                     ![date] = HashMap_insert(deduplicated_events[date], ev.uid, ev)]
             ELSE HashMap_insert(deduplicated_events, date,
                                 HashMap_insert(<<>>, ev.uid, ev))
    /\ idx' = idx + 1
    /\ mpc' = IF idx < Len(main_events) THEN "dedup" ELSE "done"
    /\ UNCHANGED <<event, config, iter, pc, next_date, ret, events, stream>>
    /\ UNCHANGED <<calendar, main_events, parse_vars, first>>

(***************************************************************************)
(* The calendars main is run on                                            *)
(***************************************************************************)
\* a VEVENT with the properties the program reads
VEvent(summary, uid, dtstart, dtend, rrule) ==
    IcalEvent(
        (IF summary THEN <<IcalProperty("SUMMARY", None, Some("work"))>> ELSE <<>>)
        \o <<IcalProperty("UID", None, Some(uid)),
             IcalProperty("DTSTART", None, Some(dtstart))>>
        \o (IF dtend = None THEN <<>> ELSE <<IcalProperty("DTEND", None, dtend)>>)
        \o <<IcalProperty("CREATED", None, Some("20241227T090000Z"))>>
        \o (IF rrule = None THEN <<>> ELSE <<IcalProperty("RRULE", None, rrule)>>))

\* events of two series on Mon 2025-01-06 and Mon 2025-01-13: single events,
\* a weekly and a monthly series with two occurrences each, rules
\* RRule::from_str answers with an error, a rule with a date-only UNTIL,
\* an event without SUMMARY and an event without DTEND
VEvents ==
    { VEvent(TRUE, "a", "20250106T090000Z", Some("20250106T100000Z"), None),
      VEvent(TRUE, "a", "20250106T150000Z", Some("20250106T160000Z"), None),
      VEvent(TRUE, "a", "20250106T090000Z", Some("20250106T100000Z"),
             Some("FREQ=WEEKLY;COUNT=2")),
      VEvent(TRUE, "a", "20250113T090000Z", Some("20250113T113000Z"), None),
      VEvent(TRUE, "b", "20250106T090000Z", Some("20250106T100000Z"), None),
      VEvent(TRUE, "b", "20250106T090000Z", Some("20250106T100000Z"),
             Some("FREQ=MONTHLY;BYMONTHDAY=6;COUNT=2")),
      VEvent(TRUE, "a", "20250106T090000Z", Some("20250106T100000Z"),
             Some("FREQ=BOGUS")),
      VEvent(TRUE, "b", "20250113T090000Z", Some("20250113T100000Z"),
             Some("FREQ=WEEKLY;COUNT=2;UNTIL=20250120T000000Z")),
      VEvent(TRUE, "b", "20250106T090000Z", Some("20250106T100000Z"),
             Some("FREQ=WEEKLY;UNTIL=20250120")),
      VEvent(FALSE, "b", "20250113T090000Z", Some("20250113T100000Z"), None),
      VEvent(TRUE, "a", "20250113T090000Z", None, None) }

\* a calendar has at most this many events
MaxEvents == 3

Calendars == UNION { [1..n -> VEvents] : n \in 1..MaxEvents }

\* main before its loop over the events of the calendar; the window ends on
\* 2025-03-01, and no rule text of the calendars holds the smallest i16, so
\* the overflow checks of the build make no difference
MainInit ==
    /\ calendar \in Calendars
    /\ idx = 1
    /\ main_events = <<>>
    /\ deduplicated_events = <<>>
    /\ mpc = "relevant_events"
    /\ config = [start_date |-> None, until_date |-> At(2025, 3, 1, 0)]
    /\ event = Event("", 0, 0, None, 0)
    /\ stream = <<>>
    /\ iter = recurring(event)
    /\ pc = "done"
    /\ next_date = 0
    /\ ret = None
    /\ events = <<>>
    /\ rule_text = ""
    /\ overflow_checks = FALSE
    /\ parsed = None
    /\ first = None

MainNext ==
    \/ relevant_events
    \/ next
    \/ next_weekly
    \/ next_monthly
    \/ collect
    \/ append
    \/ dedup

MainSpec == MainInit /\ [][MainNext]_vars

(***************************************************************************)
(* A caller of the iterator: walks followed to the end of the range of     *)
(* DateTime, calls after the end of the sequence, a second iterator        *)
(***************************************************************************)
\* the last year of the dates a walk is followed through; it stands for the
\* end of the range of DateTime<Utc>
MaxYear == 2027

in_range(dt) == year(dt) <= MaxYear

\* `next_date += Duration::days(..)` and `checked_add_months(..).unwrap()`
\* panic when the result is out of the range of DateTime
Overflow ==
    /\ pc' = "panicked"
    /\ UNCHANGED <<iter, ret, stream, next_date>>

\* one iteration of the loop of EventIter::next_weekly, with the overflow
\* check of the addition
next_weekly_checked ==
    /\ pc = "next_weekly"
    /\ IF in_range(weekly_advance(unwrap(iter.original_event.rrule), next_date))
       THEN next_weekly_loop
       ELSE Overflow
    /\ UNCHANGED <<event, config, events>>
    /\ UNCHANGED <<parse_vars, main_vars, first>>

\* one iteration of the loop of EventIter::next_monthly, with the overflow
\* checks of the additions
next_monthly_checked ==
    /\ pc = "next_monthly"
    /\ IF in_range(monthly_advance(unwrap(iter.original_event.rrule), next_date))
       THEN next_monthly_loop
       ELSE Overflow
    /\ UNCHANGED <<event, config, events>>
    /\ UNCHANGED <<parse_vars, main_vars, first>>

\* the caller calls EventIter::next again after it returned None
next_after_none ==
    /\ pc = "done"
    /\ pc' = "pull"
    /\ UNCHANGED <<event, config, iter, next_date, ret, events, stream>>
    /\ UNCHANGED <<parse_vars, main_vars, first>>

\* the caller drops the iterator between two calls of next, after any
\* number of them, and calls Event::recurring on the base event again
recurring_again ==
    /\ pc \in {"pull", "done"}
    /\ first = None
    /\ first' = Some(stream)
    /\ iter' = recurring(event)
    /\ stream' = <<>>
    /\ ret' = None
    /\ next_date' = event.start_dt
    /\ pc' = "pull"
    /\ UNCHANGED <<event, config, events>>
    /\ UNCHANGED <<parse_vars, main_vars>>

\* a base occurrence in February: Mon 2025-02-10 09-10
FebruaryBase == [start_dt |-> At(2025, 2, 10, 9), end_dt |-> At(2025, 2, 10, 10)]

IterBaseTimes ==
    { [start_dt |-> At(2025, 1, 6, 9),  end_dt |-> At(2025, 1, 6, 10)],
      [start_dt |-> At(2024, 1, 31, 9), end_dt |-> At(2024, 2, 1, 10)],
      FebruaryBase }

\* rules that end the sequence: COUNT 0 or 3, or UNTIL the day before the
\* base or four weeks after it
IterEnds(r, start) ==
    \/ r.count \in {Some(0), Some(3)}
    \/ r.until \in {Some(start - HoursPerDay), Some(start + 28 * HoursPerDay)}

IterEndingRules(start) ==
    { r \in WeeklyRules(start) \cup MonthlyRules(start)
              \cup MonthlyUnsupportedRules(start) \cup OtherRules(start) :
        r.interval = 1 /\ r.week_start = "Mon" /\ IterEnds(r, start) }

\* rules without UNTIL and COUNT whose selectors match no date the walk
\* visits: the 30th in a walk that visits February only, and a sixth Monday
\* from the end of the month
UnmatchedRules ==
    { RRule("Monthly", None, None, Some(12), None, <<>>, <<ByMonthDayDay(30)>>, <<>>, <<>>),
      RRule("Monthly", None, None, None, None, <<ByDayDay(Some(-6), "Mon")>>, <<>>, <<>>, <<>>),
      RRule("Weekly", None, None, None, None, <<ByDayDay(Some(-6), "Mon")>>, <<>>, <<>>, <<>>) }

IterEvents ==
    { Event("uid-1", b.start_dt, b.end_dt, r, b.start_dt - CreatedDaysBefore * HoursPerDay) :
        b \in IterBaseTimes, r \in {None} }
      \cup UNION { { Event("uid-1", b.start_dt, b.end_dt, Some(r),
                           b.start_dt - CreatedDaysBefore * HoursPerDay) :
                       r \in IterEndingRules(b.start_dt) } : b \in IterBaseTimes }
      \cup { Event("uid-1", FebruaryBase.start_dt, FebruaryBase.end_dt, Some(r),
                   FebruaryBase.start_dt - CreatedDaysBefore * HoursPerDay) :
               r \in UnmatchedRules }

IterInit ==
    /\ event \in IterEvents
    /\ config = [start_date |-> None, until_date |-> event.start_dt + 14 * HoursPerDay]
    /\ stream = <<>>
    /\ iter = recurring(event)
    /\ pc = "pull"
    /\ next_date = event.start_dt
    /\ ret = None
    /\ events = <<>>
    /\ first = None
    /\ rule_text = ""
    /\ overflow_checks = FALSE
    /\ parsed = None
    /\ calendar = <<>>
    /\ idx = 1
    /\ main_events = <<>>
    /\ deduplicated_events = <<>>
    /\ mpc = "relevant_events"

IterNext ==
    \/ next
    \/ next_weekly_checked
    \/ next_monthly_checked
    \/ collect
    \/ next_after_none
    \/ recurring_again

IterSpec == IterInit /\ [][IterNext]_vars

\* the events of the walks that are followed to their end: a base in
\* February with no rule, with a weekly or monthly rule without selectors
\* that ends the sequence, or with the rule that asks for the 30th
WalkEvents ==
    { e \in IterEvents :
        /\ e.start_dt = FebruaryBase.start_dt
        /\ \/ e.rrule = None
           \/ /\ unwrap(e.rrule).frequency \in {"Weekly", "Monthly"}
              /\ unwrap(e.rrule).byday = <<>>
              /\ \/ unwrap(e.rrule).bymonthday = <<>>
                 \/ unwrap(e.rrule) \in UnmatchedRules }

WalkInit ==
    /\ IterInit
    /\ event \in WalkEvents

WalkNext ==
    \/ next
    \/ next_weekly_checked
    \/ next_monthly_checked
    \/ collect

\* a call of next runs on: the loop of a walk keeps iterating until it
\* returns or panics, and collect keeps pulling until None
WalkSpec == WalkInit /\ [][WalkNext]_vars /\ WF_vars(WalkNext)

(***************************************************************************)
(* Properties                                                              *)
(***************************************************************************)
HasRule == event.rrule # None

Rule == unwrap(event.rrule)

\* the rule is one the expansion walks: Weekly, or Monthly without BYMONTH
\* and BYSETPOS
Expanded == Rule.frequency = "Weekly"
                \/ (Rule.frequency = "Monthly" /\ Rule.bymonth = <<>> /\ Rule.bysetpos = <<>>)

Max(a, b) == IF a >= b THEN a ELSE b

\* C1: the first occurrence an expansion returns is the base occurrence
\* itself (same uid, start and end), whatever the rule is
C1_FirstIsBase ==
    stream # <<>> =>
        /\ stream[1].uid = event.uid
        /\ stream[1].start_dt = event.start_dt
        /\ stream[1].end_dt = event.end_dt

C1_Witness ==
    /\ Len(stream) >= 2
    /\ HasRule
    /\ Rule.until # None
    /\ stream[2].start_dt # event.start_dt

\* C2 as claimed: an expansion of a rule with COUNT = n and no UNTIL that has
\* ended has yielded exactly n occurrences
C2_Original ==
    (pc = "done" /\ HasRule /\ Rule.count # None /\ Rule.until = None)
        => Len(stream) = unwrap(Rule.count)

\* C2 (amended): with COUNT = n and no UNTIL no expansion yields more than
\* max(n, 1) occurrences, and one that has ended has yielded exactly max(n, 1)
\* when the rule is Weekly or Monthly without BYMONTH and BYSETPOS, and
\* exactly 1 (the base) for every other rule
C2_CountLength ==
    (HasRule /\ Rule.count # None /\ Rule.until = None) =>
        /\ Len(stream) <= Max(unwrap(Rule.count), 1)
        /\ pc = "done" =>
              Len(stream) = IF Expanded THEN Max(unwrap(Rule.count), 1) ELSE 1

C2_Witness ==
    /\ pc = "done"
    /\ HasRule
    /\ Rule.frequency = "Weekly"
    /\ Rule.count = Some(6)
    /\ Rule.until = None
    /\ Len(stream) = 6

\* the date the walk in progress examines next
Candidate ==
    IF pc = "next_weekly"
    THEN weekly_advance(Rule, next_date)
    ELSE monthly_advance(Rule, next_date)

\* the selectors of the walk in progress accept the date
Accepted(dt) ==
    IF pc = "next_weekly"
    THEN byday_matches(Rule, dt)
    ELSE bymonthday_matches(Rule, dt) /\ byday_matches(Rule, dt)

Walking == pc \in {"next_weekly", "next_monthly"} /\ InHorizon(next_date)

\* a walked candidate that the selectors accept and that starts at UNTIL
\* exactly is the occurrence returned next
UntilEqualIsEmitted ==
    (Walking /\ Rule.until # None /\ Candidate = unwrap(Rule.until) /\ Accepted(Candidate))
        => (pc' = "filter" /\ ret' # None /\ unwrap(ret').start_dt = unwrap(Rule.until)
              /\ stream' = Append(stream, unwrap(ret')))

\* C3 as claimed: with UNTIL = u no emitted occurrence, element 0 included,
\* starts later than u, and an accepted candidate starting at u is emitted
C3_Original ==
    /\ [](HasRule /\ Rule.until # None
            => \A i \in 1..Len(stream) : stream[i].start_dt <= unwrap(Rule.until))
    /\ [][UntilEqualIsEmitted]_vars

\* C3 (amended): with UNTIL = u no occurrence emitted after element 0 starts
\* later than u (element 0, the base, is emitted even when it starts later
\* than u), and a walked candidate that the selectors accept and that starts
\* at u exactly is emitted
C3_Until ==
    /\ [](HasRule /\ Rule.until # None
            => \A i \in 2..Len(stream) : stream[i].start_dt <= unwrap(Rule.until))
    /\ [][UntilEqualIsEmitted]_vars

C3_Witness ==
    /\ HasRule
    /\ Rule.until # None
    /\ Len(stream) >= 2
    /\ stream[Len(stream)].start_dt = unwrap(Rule.until)

\* C4: every emitted occurrence lasts as long as the base occurrence
C4_DurationPreserved ==
    \A i \in 1..Len(stream) :
        stream[i].end_dt = stream[i].start_dt + (event.end_dt - event.start_dt)

C4_Witness ==
    /\ Len(stream) >= 3
    /\ Rule.frequency = "Monthly"
    /\ event.end_dt - event.start_dt > HoursPerDay
    /\ month(stream[3].start_dt) # month(event.start_dt)

\* C5: the starts of successively emitted occurrences never decrease
C5_NonDecreasing ==
    \A i \in 1..(Len(stream) - 1) : stream[i].start_dt <= stream[i + 1].start_dt

C5_Witness ==
    /\ Len(stream) >= 3
    /\ Rule.frequency = "Weekly"
    /\ Rule.interval = 2
    /\ stream[2].start_dt < stream[3].start_dt

\* C6: for a frequency other than Weekly and Monthly, and for Monthly with
\* BYMONTH or BYSETPOS, the expansion yields the base occurrence and then
\* ends without walking, whatever COUNT, UNTIL and INTERVAL are
C6_UnsupportedYieldsBaseOnly ==
    /\ []((HasRule /\ ~Expanded) =>
            /\ Len(stream) <= 1
            /\ pc \notin {"next_weekly", "next_monthly"}
            /\ pc = "done" => stream = <<event>>)
    /\ [][(HasRule /\ ~Expanded /\ pc = "pull" /\ stream # <<>>)
            => (pc' = "done" /\ ret' = None /\ stream' = stream)]_vars

C6_Witness ==
    /\ HasRule
    /\ Rule.frequency = "Monthly"
    /\ Rule.bymonth = <<>>
    /\ Rule.bysetpos # <<>>
    /\ Rule.count = Some(6)
    /\ Rule.interval = 2
    /\ pc = "done"
    /\ stream = <<event>>

\* the month-day predicate as documented: a positive selector counts from
\* the start of the month, a negative one from its end (-1 is the last day)
MonthDayAsDocumented(s, dt) ==
    IF s > 0
    THEN day(dt) = s
    ELSE num_days(month(dt), year(dt)) - day(dt) = Abs(s) - 1

\* C7: on every date the Monthly walk examines, ByMonthDayDay::matches agrees
\* with the documented predicate, so BYMONTHDAY=-1 emits last days of months
\* only
C7_MonthDayPredicate ==
    /\ (pc = "next_monthly" /\ InHorizon(next_date)) =>
          \A i \in 1..Len(Rule.bymonthday) :
              ByMonthDayDay_matches(Rule.bymonthday[i], Candidate)
                  <=> MonthDayAsDocumented(Rule.bymonthday[i].month_day, Candidate)
    /\ (HasRule /\ Rule.frequency = "Monthly" /\ Rule.byday = <<>>
          /\ Rule.bymonthday = <<ByMonthDayDay(-1)>>) =>
          \A i \in 2..Len(stream) :
              day(stream[i].start_dt)
                  = num_days(month(stream[i].start_dt), year(stream[i].start_dt))

\* the ordinal of a date's weekday within its month, counted from the start
OrdinalFromStart(dt) == ((day(dt) - 1) \div 7) + 1

\* C8: on every date the Monthly walk examines, ByDayDay::matches with a
\* positive ordinal n holds iff the weekday is the selector's and the date is
\* the n-th such weekday of its month, so BYDAY=2TU never emits a first
\* Tuesday
C8_PositiveOrdinalPredicate ==
    /\ (pc = "next_monthly" /\ InHorizon(next_date)) =>
          \A i \in 1..Len(Rule.byday) :
              (Rule.byday[i].n # None /\ unwrap(Rule.byday[i].n) > 0) =>
                  (ByDayDay_matches(Rule.byday[i], Candidate)
                      <=> (weekday(Candidate) = Rule.byday[i].week_day
                             /\ OrdinalFromStart(Candidate) = unwrap(Rule.byday[i].n)))
    /\ (HasRule /\ Rule.frequency = "Monthly" /\ Rule.bymonthday = <<>>
          /\ Rule.byday = <<ByDayDay(Some(2), "Tue")>>) =>
          \A i \in 2..Len(stream) :
              weekday(stream[i].start_dt) = "Tue" /\ OrdinalFromStart(stream[i].start_dt) = 2

\* C9: a candidate of the Weekly walk that is not past UNTIL is emitted iff
\* BYDAY is empty or names the candidate's weekday, ordinals playing no part
C9_WeeklyAcceptance ==
    [][(pc = "next_weekly" /\ InHorizon(next_date) /\ ~past_until(Rule, Candidate)) =>
          ((pc' = "filter" /\ ret' # None /\ unwrap(ret').start_dt = Candidate)
              <=> (Rule.byday = <<>>
                     \/ \E i \in 1..Len(Rule.byday) :
                            Rule.byday[i].week_day = weekday(Candidate)))]_vars

\* C10: the collection of an event's occurrences stops pulling once a produced
\* occurrence starts after the upper bound of the window: every produced
\* occurrence but the last one starts within the bound
C10_StopsPastUpperBound ==
    \A i \in 1..(Len(stream) - 1) : stream[i].start_dt <= config.until_date

(***************************************************************************)
(* The parser of the rule text (ParseSpec)                                 *)
(***************************************************************************)
\* the parameters of the rule text, and the name and value of one of them
Parts == split(rule_text, ";")

PartName(p) ==
    IF split_once(p, "=") = None THEN "" ELSE to_uppercase(unwrap(split_once(p, "="))[1])

PartValue(p) ==
    IF split_once(p, "=") = None THEN "" ELSE unwrap(split_once(p, "="))[2]

HasPart(name) == \E i \in 1..Len(Parts) : PartName(Parts[i]) = name

\* RRule::from_str has ended: with a rule, with an error value
Ended == parsed # None

Returned == Ended /\ unwrap(parsed).kind = "Ok"

Failed == Ended /\ unwrap(parsed).kind = "Err"

ReturnedRule == unwrap(parsed).value

FrequencyLiterals ==
    {"SECONDLY", "MINUTELY", "HOURLY", "DAILY", "WEEKLY", "MONTHLY", "YEARLY"}

RecognizedNames ==
    {"FREQ", "UNTIL", "COUNT", "INTERVAL", "WKST", "BYDAY", "BYWEEKNO", "BYMONTH",
     "BYMONTHDAY", "BYYEARDAY", "BYSETPOS"}

\* C12: RRule::from_str returns an error for every rule text without a FREQ
\* part and for every FREQ value that is not one of the seven literals, and
\* every rule it returns has a frequency.
C12_FrequencyRequired ==
    Ended =>
        /\ ~HasPart("FREQ") => Failed
        /\ (\E i \in 1..Len(Parts) :
               PartName(Parts[i]) = "FREQ" /\ PartValue(Parts[i]) \notin FrequencyLiterals)
           => Failed
        /\ Returned =>
             ReturnedRule.frequency \in
                {"Secondly", "Minutely", "Hourly", "Daily", "Weekly", "Monthly", "Yearly"}

\* C13: a rule text in which a recognized name appears twice makes
\* RRule::from_str return an error, whatever the values and the positions.
C13_RepeatedNameIsError ==
    Ended =>
        ((\E i, j \in 1..Len(Parts) :
             /\ i < j
             /\ PartName(Parts[i]) \in RecognizedNames
             /\ PartName(Parts[i]) = PartName(Parts[j]))
         => Failed)

\* C14: RRule::from_str returns an error for every rule text with both an
\* UNTIL and a COUNT part, in either order, and no returned rule has both
\* until and count set.
C14_UntilExcludesCount ==
    Ended =>
        /\ HasPart("UNTIL") /\ HasPart("COUNT") => Failed
        /\ Returned => ~(is_some(ReturnedRule.until) /\ is_some(ReturnedRule.count))

\* the parameters before the i-th are parsed without an error or a panic
ReachesPart(i) == from_str_loop(SubSeq(Parts, 1, i - 1), 1, NoParts).kind = "Ok"

C16_ByDayOrdinalRange ==
    Returned =>
        \A i \in 1..Len(ReturnedRule.byday) :
            \/ ReturnedRule.byday[i].n = None
            \/ Abs(unwrap(ReturnedRule.byday[i].n)) \in 1..4

\* C17: every bymonth entry of a returned rule is in 1..12.
C17_ByMonthRange ==
    Returned =>
        \A i \in 1..Len(ReturnedRule.bymonth) : ReturnedRule.bymonth[i] \in 1..12

\* C18: RRule::from_str ends with a rule or an error value for every rule
\* text, never with a panic.
C18_NeverPanics ==
    Ended => unwrap(parsed).kind \in {"Ok", "Err"}

(***************************************************************************)
(* Deduplication in main (MainSpec)                                        *)
(***************************************************************************)
\* the (calendar day of start, uid) pair of an occurrence
DayAndUid(ev) == <<date_naive(ev.start_dt), ev.uid>>

\* how many of the collected occurrences the deduplication loop has taken
Deduplicated == IF mpc \in {"dedup", "done"} THEN idx - 1 ELSE 0

\* the pairs the deduplication map holds an occurrence for
RetainedPairs ==
    UNION { { <<d, u>> : u \in DOMAIN deduplicated_events[d] } :
              d \in DOMAIN deduplicated_events }

\* the position of the last of the first n collected occurrences with pair k
LastWith(k, n) ==
    CHOOSE i \in 1..n :
        /\ DayAndUid(main_events[i]) = k
        /\ \A j \in (i + 1)..n : DayAndUid(main_events[j]) # k

\* C11: after the deduplication of the collected occurrences (and after each
\* iteration of its loop, for the occurrences taken so far) the map holds one
\* occurrence for each (calendar day of start, uid) pair of the input and for
\* no other pair, and the occurrence held for a pair is the last one of the
\* input with that pair.
C11_LastSeenWins ==
    /\ RetainedPairs = { DayAndUid(main_events[i]) : i \in 1..Deduplicated }
    /\ \A k \in RetainedPairs :
         deduplicated_events[k[1]][k[2]] = main_events[LastWith(k, Deduplicated)]

\* C11 witness: the deduplication is over, three collected occurrences share
\* their pair, the first differs from the last, and the last one is held
C11_Witness ==
    /\ mpc = "done"
    /\ Deduplicated = Len(main_events)
    /\ \E i, j, l \in 1..Len(main_events) :
         /\ i < j /\ j < l
         /\ DayAndUid(main_events[i]) = DayAndUid(main_events[l])
         /\ DayAndUid(main_events[j]) = DayAndUid(main_events[l])
         /\ main_events[i] # main_events[l]
         /\ LastWith(DayAndUid(main_events[l]), Len(main_events)) = l
         /\ deduplicated_events[DayAndUid(main_events[l])[1]][DayAndUid(main_events[l])[2]]
               = main_events[l]
         /\ Cardinality(RetainedPairs) >= 2

\* the Event::try_from of the event has an RRULE text RRule::from_str does
\* not make a rule of
RuleFails(ical) ==
    \E i \in 1..Len(ical.properties) :
        /\ ical.properties[i].name = "RRULE"
        /\ ical.properties[i].value # None
        /\ RRule_from_str(unwrap(ical.properties[i].value)).kind # "Ok"

\* C19: an event whose rule fails to parse is skipped and the run goes on:
\* relevant_events gives no occurrence for it, the process is not ended, and
\* main moves to the next event or, after the last, to the deduplication.
C19_FailingRuleIsSkipped ==
    [][ (mpc = "relevant_events" /\ idx <= Len(calendar) /\ RuleFails(calendar[idx]))
          => /\ mpc' # "aborted"
             /\ main_events' = main_events
             /\ \/ (mpc' = "relevant_events" /\ idx' = idx + 1)
                \/ (mpc' \in {"dedup", "done"} /\ idx = Len(calendar)) ]_vars

(***************************************************************************)
(* The fields an expansion leaves alone (Spec)                             *)
(***************************************************************************)
\* C20: every occurrence an expansion has returned carries the uid, the rule
\* and the property bag of the base occurrence (and its creation instant):
\* it is the base occurrence with, at most, another start and end.
C20_OnlyStartAndEndDiffer ==
    \A i \in 1..Len(stream) :
        /\ stream[i].uid = event.uid
        /\ stream[i].rrule = event.rrule
        /\ stream[i].event = event.event
        /\ stream[i] = [event EXCEPT !.start_dt = stream[i].start_dt,
                                     !.end_dt = stream[i].end_dt]

\* C20 witness: a walk has returned an occurrence on a later date, with the
\* rule of the base occurrence in it
C20_Witness ==
    /\ HasRule
    /\ Len(stream) >= 3
    /\ stream[3].start_dt > event.start_dt
    /\ stream[3].end_dt > event.end_dt
    /\ stream[3].rrule = event.rrule
    /\ stream[3].uid = event.uid

(***************************************************************************)
(* The interval of the Weekly and Monthly walks (Spec)                     *)
(***************************************************************************)
\* the day number of the first day of the week of dt, weeks beginning on ws
WeekStartDay(dt, ws) ==
    DayNumber(dt) - ((number_from_monday(weekday(dt)) - number_from_monday(ws) + 7) % 7)

\* how many weeks the week of dt lies after the week of the base occurrence
WeeksFromBase(dt) ==
    (WeekStartDay(dt, Rule.week_start) - WeekStartDay(event.start_dt, Rule.week_start)) \div 7

\* C21: in a Weekly expansion with INTERVAL = k every occurrence emitted after
\* the base lies in a week, weeks beginning on the rule's week start, that is a
\* multiple of k weeks after the week of the base; with k = 1 the walk goes
\* from each day to the next, skipping no week.
C21_WeeklyIntervalWeeks ==
    (HasRule /\ Rule.frequency = "Weekly") =>
        /\ \A i \in 2..Len(stream) :
              /\ WeeksFromBase(stream[i].start_dt) >= 0
              /\ WeeksFromBase(stream[i].start_dt) % Rule.interval = 0
        /\ (pc = "next_weekly" /\ InHorizon(next_date) /\ Rule.interval = 1)
              => Candidate = add_days(next_date, 1)

\* C21 witness: with INTERVAL=2 and weeks beginning on Sunday or Wednesday an
\* occurrence two weeks after the week of the base has been emitted, on a
\* weekday other than the base's
C21_Witness ==
    /\ HasRule
    /\ Rule.frequency = "Weekly"
    /\ Rule.interval = 2
    /\ Rule.week_start # "Mon"
    /\ Rule.byday # <<>>
    /\ Len(stream) >= 3
    /\ WeeksFromBase(stream[Len(stream)].start_dt) = 2
    /\ weekday(stream[Len(stream)].start_dt) # weekday(event.start_dt)

\* the months of a date counted from year 0
MonthIndex(dt) == year(dt) * 12 + (month(dt) - 1)

\* how many months the month of dt lies after the month of the base occurrence
MonthsFromBase(dt) == MonthIndex(dt) - MonthIndex(event.start_dt)

\* C22: in a Monthly expansion with INTERVAL = k every occurrence emitted
\* after the base lies in a month that is a multiple of k months after the
\* month of the base; when the walk gets to day 1 of a month it goes k - 1
\* whole months ahead and is on day 1 there, and with k = 1 it goes from each
\* day to the next.
C22_MonthlyIntervalMonths ==
    (HasRule /\ Rule.frequency = "Monthly") =>
        /\ \A i \in 2..Len(stream) :
              /\ MonthsFromBase(stream[i].start_dt) >= 0
              /\ MonthsFromBase(stream[i].start_dt) % Rule.interval = 0
        /\ (pc = "next_monthly" /\ InHorizon(next_date)) =>
              /\ day(add_days(next_date, 1)) = 1 =>
                    /\ day(Candidate) = 1
                    /\ HourOfDay(Candidate) = HourOfDay(next_date)
                    /\ MonthIndex(Candidate)
                          = MonthIndex(add_days(next_date, 1)) + Rule.interval - 1
              /\ day(add_days(next_date, 1)) # 1 => Candidate = add_days(next_date, 1)
              /\ Rule.interval = 1 => Candidate = add_days(next_date, 1)

\* C22 witness: with INTERVAL=2 the walk has jumped over a month and emitted
\* an occurrence two months after the month of the base
C22_Witness ==
    /\ HasRule
    /\ Rule.frequency = "Monthly"
    /\ Rule.interval = 2
    /\ Len(stream) >= 2
    /\ MonthsFromBase(stream[Len(stream)].start_dt) = 2

(***************************************************************************)
(* The selectors of the Monthly walk (Spec)                                *)
(***************************************************************************)
\* a selector set is satisfied when it is empty or one of its members
\* matches the date
MonthDaySetSatisfied(dt) ==
    Rule.bymonthday = <<>>
        \/ \E i \in 1..Len(Rule.bymonthday) : ByMonthDayDay_matches(Rule.bymonthday[i], dt)

DaySetSatisfied(dt) ==
    Rule.byday = <<>>
        \/ \E i \in 1..Len(Rule.byday) : ByDayDay_matches(Rule.byday[i], dt)

\* the walk in progress returns the candidate as the next occurrence
EmitsCandidate ==
    /\ pc' = "filter"
    /\ ret' # None
    /\ unwrap(ret').start_dt = Candidate
    /\ stream' = Append(stream, unwrap(ret'))

\* C23 as claimed: every candidate date of the Monthly walk is emitted iff it
\* satisfies the bymonthday set and the byday set, whatever UNTIL is.
C23_Original ==
    [][(pc = "next_monthly" /\ InHorizon(next_date)) =>
          (EmitsCandidate
              <=> (MonthDaySetSatisfied(Candidate) /\ DaySetSatisfied(Candidate)))]_vars

\* C23 (amended): a candidate date of the Monthly walk that is not later than
\* UNTIL is emitted iff it satisfies both the bymonthday set and the byday
\* set, a set being satisfied when it is empty or one of its members matches
\* the date (with both sets empty every such candidate is emitted); a
\* candidate later than UNTIL is not emitted and ends the sequence.
C23_MonthlyAcceptance ==
    [][(pc = "next_monthly" /\ InHorizon(next_date)) =>
          /\ ~past_until(Rule, Candidate) =>
                /\ EmitsCandidate
                      <=> (MonthDaySetSatisfied(Candidate) /\ DaySetSatisfied(Candidate))
                /\ (Rule.bymonthday = <<>> /\ Rule.byday = <<>>) => EmitsCandidate
          /\ past_until(Rule, Candidate) =>
                (pc' = "done" /\ ret' = None /\ stream' = stream)]_vars

\* C23 witness: an occurrence has been emitted by a Monthly walk whose rule
\* has both a bymonthday and a byday selector, after days that were passed over
C23_Witness ==
    /\ HasRule
    /\ Rule.frequency = "Monthly"
    /\ Rule.bymonthday # <<>>
    /\ Rule.byday # <<>>
    /\ pc = "filter"
    /\ Len(stream) >= 2
    /\ stream[Len(stream)].start_dt > add_days(stream[Len(stream) - 1].start_dt, 1)

(***************************************************************************)
(* The weekday predicate with a negative ordinal (Spec)                    *)
(***************************************************************************)
\* the length of the month of dt, from the calendar: the days between the
\* first of the month and the first of the next month
DaysInMonthOf(dt) ==
    LET y == year(dt)
        m == month(dt)
    IN  (IF m = 12 THEN DaysFromCivil(y + 1, 1, 1) ELSE DaysFromCivil(y, m + 1, 1))
            - DaysFromCivil(y, m, 1)

\* the ordinal of a date's weekday within its month, counted from the end
OrdinalFromEnd(dt) == ((DaysInMonthOf(dt) - day(dt)) \div 7) + 1

\* C24: on every date a walk examines, ByDayDay::matches with a negative
\* ordinal n holds iff the date's weekday is the selector's and the date is
\* the |n|-th such weekday from the end of its month, the month's length
\* being that of the actual month and year.
C24_NegativeOrdinalPredicate ==
    Walking =>
        \A i \in 1..Len(Rule.byday) :
            (Rule.byday[i].n # None /\ unwrap(Rule.byday[i].n) < 0) =>
                (ByDayDay_matches(Rule.byday[i], Candidate)
                    <=> (/\ weekday(Candidate) = Rule.byday[i].week_day
                         /\ OrdinalFromEnd(Candidate) = Abs(unwrap(Rule.byday[i].n))))

(***************************************************************************)
(* The order of the by-day list (ParseSpec)                                *)
(***************************************************************************)
\* the position of a weekday in a week beginning on ws, 0 for ws itself
PositionFrom(ws, wd) == (number_from_monday(wd) - number_from_monday(ws) + 7) % 7

\* C25: the byday list of every rule RRule::from_str returns is in ascending
\* order of the weekdays' positions counted from the rule's week_start.
C25_ByDaySortedFromWeekStart ==
    Returned =>
        \A i, j \in 1..Len(ReturnedRule.byday) :
            i < j => PositionFrom(ReturnedRule.week_start, ReturnedRule.byday[i].week_day)
                       <= PositionFrom(ReturnedRule.week_start, ReturnedRule.byday[j].week_day)

(***************************************************************************)
(* The bounds of the query window (Spec)                                   *)
(***************************************************************************)
\* C26: the filter of relevant_events does not collect an occurrence whose
\* start equals the window's upper bound, and collects one whose start
\* equals the lower bound (and lies before the upper bound).
C26_UpperBoundExclusive ==
    [][pc = "filter" =>
          /\ unwrap(ret).start_dt = config.until_date => events' = events
          /\ (/\ is_some(config.start_date)
              /\ unwrap(ret).start_dt = unwrap(config.start_date)
              /\ unwrap(ret).start_dt < config.until_date)
                 => events' = Append(events, unwrap(ret))]_vars

(***************************************************************************)
(* The iterator and its caller (IterSpec)                                  *)
(***************************************************************************)
\* C27: pulling never changes the base event, the iterator works on an
\* equal copy of it, and the iterator of a second call of Event::recurring
\* returns, position by position, the occurrences the first one returned,
\* however many the first one was asked for before it was dropped.
C27_Restartable ==
    [][/\ event' = event
       /\ iter'.original_event = event
       /\ first' # None =>
            \A i \in 1..Len(stream') :
                i <= Len(unwrap(first')) => stream'[i] = unwrap(first')[i]]_vars

\* the first iterator was dropped midway, after two occurrences or more, and
\* the second one has returned more than the first
C27_Witness ==
    /\ first # None
    /\ Len(unwrap(first)) >= 2
    /\ Len(stream) > Len(unwrap(first))
    /\ stream[Len(stream)].start_dt > event.start_dt

\* the walk of a call of next is in progress
InWalk == pc \in {"next_weekly", "next_monthly"}

\* the call of next has returned, an occurrence or the end of the sequence
CallEnded == pc \in {"filter", "done"}

\* C28: every call of EventIter::next that enters the weekly or the monthly
\* walk returns, an occurrence or the end of the sequence.
C28_EveryCallReturns == InWalk ~> CallEnded

\* the iterator has returned the end of the sequence: the first call always
\* returns the base occurrence, and ret keeps what the last call returned
NoneReturned == ret = None /\ iter.count > 0

\* C29: once next has returned None, every later call on the same iterator
\* returns None and leaves the iterator as it was.
C29_NoneIsFinal ==
    [][(NoneReturned /\ first' = first) =>
          (iter' = iter /\ ret' = None /\ stream' = stream /\ pc' # "filter")]_vars

\* a later call, after None was returned by a walk that went past UNTIL, is
\* walking again
C29_Witness ==
    /\ NoneReturned
    /\ InWalk
    /\ Rule.until # None
    /\ Len(stream) >= 2

\* C30: the iterator's count is the number of occurrences it has returned,
\* and its last_start_dt is the start of the one returned last (the base
\* start while none was returned); a call that returns None returns no
\* occurrence, so it leaves both as they are.
C30_CountAndLastStart ==
    /\ iter.count = Len(stream)
    /\ iter.last_start_dt = IF stream = <<>> THEN event.start_dt
                            ELSE stream[Len(stream)].start_dt

\* three occurrences were returned, the last one walked, and then None
C30_Witness ==
    /\ NoneReturned
    /\ pc = "done"
    /\ iter.count = 3
    /\ iter.last_start_dt > event.start_dt

====
